---- MODULE Spec2Model ----
(***************************************************************************)
(* home_lab_monitor: the UDP syslog listener (app/monitors/               *)
(* syslog_listener.py), the StateManager with its scoped lock and the two  *)
(* programs that drive them (test_syslog.py, test_locking.py).             *)
(*                                                                         *)
(* Text is a sequence of one-character strings; a datagram's payload is a  *)
(* sequence of such characters in which BadByte stands for a byte that is  *)
(* not valid UTF-8.  Python's None is the integer None (-1): facility and  *)
(* severity are never negative.                                            *)
(***************************************************************************)
EXTENDS Integers, Sequences, FiniteSets, TLC

VARIABLES
    state,        \* StateManager._state, a dict: key -> value
    lock,         \* StateManager._lock: NoHolder, or the context holding it
    lpc,          \* listener thread: position in start_syslog_listener
    received,     \* number of datagrams recvfrom has returned
    data,         \* listener local: payload of the last datagram
    addr,         \* listener local: sender of the last datagram
    decoded,      \* listener local `message`: the decoded payload
    header,       \* listener locals facility, severity, message_without_pri
    fields,       \* listener locals hostname, app_name, actual_message
    log_entry,    \* listener local: the entry built from the last datagram
    faults,       \* number of exceptions raised so far (bounded by MaxFaults)
    mpc,          \* main thread: position in main() of either program
    seen,         \* main thread locals: what the reporter read under the lock
    wpc,          \* worker threads of test_locking: position
    wi,           \* worker threads: loop variable i (iterations done)
    wcur,         \* worker threads: local `current`
    commits,      \* history: number of commits begun by the ingest loop
    highLog,      \* history: the high-severity entries committed, in order
    dropped,      \* history: datagrams whose processing raised before commit
    raised,       \* history: where the listener's last exception was raised
    pre           \* history: counter and alerts when the last commit began

vars == << state, lock, lpc, received, data, addr, decoded, header, fields,
           log_entry, faults, mpc,
           seen, wpc, wi, wcur, commits, highLog, dropped, raised, pre >>

\* what lines 172-181 leave in the listener's locals
parsed == << decoded, header, fields >>

listenerVars == << lpc, received, data, addr, parsed, log_entry, commits,
                   highLog, dropped, raised, pre >>
mainVars     == << mpc, seen >>
workerVars   == << wpc, wi, wcur >>

-----------------------------------------------------------------------------
(* Bounds of the model *)

\* datagrams the socket delivers in one run
MaxDatagrams == 103
\* only the first MaxVaried datagrams vary; the rest are DefaultDatagram
MaxVaried == 2
\* exceptions raised in one run
MaxFaults == 1

-----------------------------------------------------------------------------
(* Program constants *)

None == -1
MaxAlerts == 100
NumThreads == 3
Iterations == 5

NoHolder == "none"
Listener == "listener"
Main     == "main"
WorkerNames == << "Thread-1", "Thread-2", "Thread-3" >>
Workers  == { WorkerNames[i] : i \in 1..NumThreads }

\* mutant: warnings count as high severity
HIGH_SEVERITY_Wide == { 0, 1, 2, 3, 4 }

HIGH_SEVERITY == { 0, 1, 2, 3 }

\* mutant: the names are one severity off
SEVERITY_NAMES_Shifted ==
    [ s \in 0..7 |->
        CASE s = 0 -> "Alert"
          [] s = 1 -> "Critical"
          [] s = 2 -> "Error"
          [] s = 3 -> "Warning"
          [] s = 4 -> "Notice"
          [] s = 5 -> "Informational"
          [] s = 6 -> "Debug"
          [] s = 7 -> "Emergency" ]

SEVERITY_NAMES ==
    [ s \in 0..7 |->
        CASE s = 0 -> "Emergency"
          [] s = 1 -> "Alert"
          [] s = 2 -> "Critical"
          [] s = 3 -> "Error"
          [] s = 4 -> "Warning"
          [] s = 5 -> "Notice"
          [] s = 6 -> "Informational"
          [] s = 7 -> "Debug" ]

-----------------------------------------------------------------------------
(* Python dicts and lists *)

EmptyDict == [ k \in {} |-> None ]

\* k in d
DictHas(d, k) == k \in DOMAIN d

\* d.get(k, default)
DictGet(d, k, default) == IF k \in DOMAIN d THEN d[k] ELSE default

\* d[k] = v
DictSet(d, k, v) == [ x \in (DOMAIN d) \cup {k} |-> IF x = k THEN v ELSE d[x] ]

\* s[-n:]
LastN(s, n) == IF Len(s) > n THEN SubSeq(s, Len(s) - n + 1, Len(s)) ELSE s

-----------------------------------------------------------------------------
(* Text *)

BadByte == "\\xff"
Digits  == { "0", "1", "2", "3", "4", "5", "6", "7", "8", "9" }

DigitVal(c) ==
    CASE c = "0" -> 0 [] c = "1" -> 1 [] c = "2" -> 2 [] c = "3" -> 3
      [] c = "4" -> 4 [] c = "5" -> 5 [] c = "6" -> 6 [] c = "7" -> 7
      [] c = "8" -> 8 [] c = "9" -> 9

\* int(digits)
RECURSIVE IntOf(_)
IntOf(ds) ==
    IF ds = << >> THEN 0
    ELSE 10 * IntOf(SubSeq(ds, 1, Len(ds) - 1)) + DigitVal(ds[Len(ds)])

\* data.decode('utf-8'), and on UnicodeDecodeError data.decode('utf-8',
\* errors='ignore'), which drops the bytes that do not decode
Decode(bytes) ==
    IF \A i \in 1..Len(bytes) : bytes[i] # BadByte
    THEN bytes
    ELSE SelectSeq(bytes, LAMBDA c : c # BadByte)

\* the number of digits matched by \d+ from position `from` on
RECURSIVE DigitRun(_, _)
DigitRun(s, from) ==
    IF from <= Len(s) /\ s[from] \in Digits THEN 1 + DigitRun(s, from + 1) ELSE 0

\* whether (.*)$ matches the text t to its end: '.' matches no newline, and
\* '$' matches at the end of the text and just before a final newline
DotStarMatches(t) ==
    \A i \in 1..Len(t) : t[i] = "\n" => i = Len(t)

\* the group (.*) of that match: t without its final newline
DotStarGroup(t) ==
    IF Len(t) > 0 /\ t[Len(t)] = "\n" THEN SubSeq(t, 1, Len(t) - 1) ELSE t

\* mutant: \d* in place of \d+, so "<>" counts as a priority prefix
parse_syslog_pri_star(message) ==
    LET n    == DigitRun(message, 2)
        rest == SubSeq(message, n + 3, Len(message))
    IN  IF /\ Len(message) >= n + 2
           /\ message[1] = "<"
           /\ message[n + 2] = ">"
           /\ DotStarMatches(rest)
        THEN LET pri == IntOf(SubSeq(message, 2, n + 1))
             IN  << pri \div 8, pri % 8, DotStarGroup(rest) >>
        ELSE << None, None, message >>

\* re.match(r'^<(\d+)>(.*)$', message): (facility, severity, remaining)
parse_syslog_pri(message) ==
    LET n    == DigitRun(message, 2)
        rest == SubSeq(message, n + 3, Len(message))
    IN  IF /\ Len(message) >= 3
           /\ message[1] = "<"
           /\ n >= 1
           /\ Len(message) >= n + 2
           /\ message[n + 2] = ">"
           /\ DotStarMatches(rest)
        THEN LET pri == IntOf(SubSeq(message, 2, n + 1))
             IN  << pri \div 8, pri % 8, DotStarGroup(rest) >>
        ELSE << None, None, message >>

\* the characters of \s, [A-Z] and [a-z] among those the model uses
Whitespace == { " ", "\t", "\n", "\r", "\f" }
UpperCase  == { "A", "B", "C", "D", "E", "F", "G", "H", "I", "J", "K", "L", "M",
                "N", "O", "P", "Q", "R", "S", "T", "U", "V", "W", "X", "Y", "Z" }
LowerCase  == { "a", "b", "c", "d", "e", "f", "g", "h", "i", "j", "k", "l", "m",
                "n", "o", "p", "q", "r", "s", "t", "u", "v", "w", "x", "y", "z" }

\* the first position from `from` on that holds no whitespace (Len(s) + 1
\* when there is none)
RECURSIVE SkipSpace(_, _)
SkipSpace(s, from) ==
    IF from <= Len(s) /\ s[from] \in Whitespace THEN SkipSpace(s, from + 1) ELSE from

\* the first position from `from` on that holds whitespace (Len(s) + 1 when
\* there is none)
RECURSIVE SkipToken(_, _)
SkipToken(s, from) ==
    IF from <= Len(s) /\ s[from] \notin Whitespace THEN SkipToken(s, from + 1) ELSE from

\* s.lstrip()
LStrip(s) == SubSeq(s, SkipSpace(s, 1), Len(s))

\* s.startswith(prefix)
StartsWith(s, prefix) ==
    Len(s) >= Len(prefix) /\ SubSeq(s, 1, Len(prefix)) = prefix

\* s[from:].split(None, maxsplit): runs of whitespace separate the fields, and
\* the field after the last split keeps its inner and trailing whitespace
RECURSIVE SplitFrom(_, _, _)
SplitFrom(s, from, maxsplit) ==
    LET i == SkipSpace(s, from)
    IN  IF i > Len(s) THEN << >>
        ELSE IF maxsplit = 0 THEN << SubSeq(s, i, Len(s)) >>
        ELSE LET j == SkipToken(s, i)
             IN  << SubSeq(s, i, j - 1) >> \o SplitFrom(s, j, maxsplit - 1)

\* mutant: the scan stops at the first closing bracket, whatever the depth
RECURSIVE BracketEnd_flat(_, _, _)
BracketEnd_flat(remainder, i, bracket_count) ==
    IF i > Len(remainder) THEN 0
    ELSE IF remainder[i] = "]" THEN i
    ELSE BracketEnd_flat(remainder, i + 1, bracket_count)

\* lines 88-97: the index of the bracket that closes the first one, or 0
RECURSIVE BracketEnd(_, _, _)
BracketEnd(remainder, i, bracket_count) ==
    IF i > Len(remainder) THEN 0
    ELSE IF remainder[i] = "[" THEN BracketEnd(remainder, i + 1, bracket_count + 1)
    ELSE IF remainder[i] = "]"
         THEN (IF bracket_count - 1 = 0 THEN i
               ELSE BracketEnd(remainder, i + 1, bracket_count - 1))
    ELSE BracketEnd(remainder, i + 1, bracket_count)

\* mutant: the text after the nil structured data is stripped on the left
StructuredDataMessage_strip(remainder) ==
    IF StartsWith(remainder, << "-", " " >>)
    THEN LStrip(SubSeq(remainder, 2, Len(remainder)))
    ELSE IF StartsWith(remainder, << "[" >>)
    THEN LET end_index == BracketEnd(remainder, 1, 0)
         IN  IF end_index > 0 /\ end_index < Len(remainder)
             THEN LStrip(SubSeq(remainder, end_index + 1, Len(remainder)))
             ELSE << >>
    ELSE remainder

\* lines 80-106: the message text of an RFC 5424 remainder field
StructuredDataMessage(remainder) ==
    IF StartsWith(remainder, << "-", " " >>)
    THEN SubSeq(remainder, 3, Len(remainder))
    ELSE IF StartsWith(remainder, << "[" >>)
    THEN LET end_index == BracketEnd(remainder, 1, 0)
         IN  IF end_index > 0 /\ end_index < Len(remainder)
             THEN LStrip(SubSeq(remainder, end_index + 1, Len(remainder)))
             ELSE << >>
    ELSE remainder

\* the end of a match of \d{2}:\d{2}:\d{2} at position i, or 0
ClockEnd(s, i) ==
    IF /\ i + 7 <= Len(s)
       /\ \A k \in { 0, 1, 3, 4, 6, 7 } : s[i + k] \in Digits
       /\ s[i + 2] = ":" /\ s[i + 5] = ":"
    THEN i + 8 ELSE 0

\* mutant: the month is matched without regard to case
Rfc3164Match_anycase(s) ==
    LET none == [ ok |-> FALSE, hostname |-> << >>, text |-> << >> ]
        dayAt  == SkipSpace(s, 4)
        nDay   == DigitRun(s, dayAt)
        timeAt == SkipSpace(s, dayAt + nDay)
        timeTo == ClockEnd(s, timeAt)
        hostAt == SkipSpace(s, timeTo)
        hostTo == SkipToken(s, hostAt)
        textAt == SkipSpace(s, hostTo)
        text   == SubSeq(s, textAt, Len(s))
    IN  IF /\ Len(s) >= 3
           /\ s[1] \in UpperCase \cup LowerCase /\ s[2] \in LowerCase /\ s[3] \in LowerCase
           /\ dayAt > 4
           /\ nDay \in { 1, 2 }
           /\ timeAt > dayAt + nDay
           /\ timeTo > 0
           /\ hostAt > timeTo
           /\ hostTo > hostAt
           /\ textAt > hostTo
           /\ DotStarMatches(text)
        THEN [ ok |-> TRUE, hostname |-> SubSeq(s, hostAt, hostTo - 1),
               text |-> DotStarGroup(text) ]
        ELSE none

\* line 115: re.match(r'^([A-Z][a-z]{2}\s+\d{1,2}\s+\d{2}:\d{2}:\d{2})\s+(\S+)\s+(.*)$')
\* as [ok, hostname, text]; every quantifier is followed by a character it
\* cannot match, so the greedy match is the only one
Rfc3164Match(s) ==
    LET none == [ ok |-> FALSE, hostname |-> << >>, text |-> << >> ]
        dayAt  == SkipSpace(s, 4)
        nDay   == DigitRun(s, dayAt)
        timeAt == SkipSpace(s, dayAt + nDay)
        timeTo == ClockEnd(s, timeAt)
        hostAt == SkipSpace(s, timeTo)
        hostTo == SkipToken(s, hostAt)
        textAt == SkipSpace(s, hostTo)
        text   == SubSeq(s, textAt, Len(s))
    IN  IF /\ Len(s) >= 3
           /\ s[1] \in UpperCase /\ s[2] \in LowerCase /\ s[3] \in LowerCase
           /\ dayAt > 4
           /\ nDay \in { 1, 2 }
           /\ timeAt > dayAt + nDay
           /\ timeTo > 0
           /\ hostAt > timeTo
           /\ hostTo > hostAt
           /\ textAt > hostTo
           /\ DotStarMatches(text)
        THEN [ ok |-> TRUE, hostname |-> SubSeq(s, hostAt, hostTo - 1),
               text |-> DotStarGroup(text) ]
        ELSE none

\* whether (?:\[\d+\])?: matches at position i, and where the match ends
AppTailEnd(s, i) ==
    LET n == DigitRun(s, i + 1)
    IN  IF /\ i <= Len(s) /\ s[i] = "["
           /\ n >= 1
           /\ i + n + 2 <= Len(s)
           /\ s[i + n + 1] = "]"
           /\ s[i + n + 2] = ":"
        THEN i + n + 3
        ELSE IF i <= Len(s) /\ s[i] = ":" THEN i + 1
        ELSE 0

\* line 123: re.match(r'^(\S+?)(?:\[\d+\])?:\s*(.*)$', message_text) as
\* [ok, app_name, text]; \S+? takes the shortest token that lets the rest match
AppMatch(s) ==
    LET tokenTo == SkipToken(s, 1)
        lens    == { k \in 1..(tokenTo - 1) :
                        /\ AppTailEnd(s, k + 1) > 0
                        /\ DotStarMatches(
                              LStrip(SubSeq(s, AppTailEnd(s, k + 1), Len(s)))) }
    IN  IF lens = {}
        THEN [ ok |-> FALSE, app_name |-> << >>, text |-> << >> ]
        ELSE LET k    == CHOOSE x \in lens : \A y \in lens : x <= y
                 rest == SubSeq(s, AppTailEnd(s, k + 1), Len(s))
             IN  [ ok |-> TRUE, app_name |-> SubSeq(s, 1, k),
                   text |-> DotStarGroup(LStrip(rest)) ]

Unknown == << "u", "n", "k", "n", "o", "w", "n" >>

\* mutant: a version-1 message of fewer than 7 fields still gives its
\* third field as hostname
parse_syslog_message_partial(message_without_pri) ==
    IF StartsWith(message_without_pri, << "1", " " >>)
    THEN LET parts == SplitFrom(message_without_pri, 1, 6)
         IN  IF Len(parts) >= 7
             THEN << IF parts[3] # << "-" >> THEN parts[3] ELSE Unknown,
                     IF parts[4] # << "-" >> THEN parts[4] ELSE Unknown,
                     StructuredDataMessage(parts[7]) >>
             ELSE << IF Len(parts) >= 3 THEN parts[3] ELSE Unknown,
                     Unknown, message_without_pri >>
    ELSE LET rfc3164_match == Rfc3164Match(message_without_pri)
         IN  IF rfc3164_match.ok
             THEN LET app_match == AppMatch(rfc3164_match.text)
                  IN  IF app_match.ok
                      THEN << rfc3164_match.hostname, app_match.app_name,
                              app_match.text >>
                      ELSE << rfc3164_match.hostname, Unknown,
                              rfc3164_match.text >>
             ELSE << Unknown, Unknown, message_without_pri >>

\* lines 50-134: (hostname, app_name, actual_message)
parse_syslog_message(message_without_pri) ==
    IF StartsWith(message_without_pri, << "1", " " >>)
    THEN LET parts == SplitFrom(message_without_pri, 1, 6)
         IN  IF Len(parts) >= 7
             THEN << IF parts[3] # << "-" >> THEN parts[3] ELSE Unknown,
                     IF parts[4] # << "-" >> THEN parts[4] ELSE Unknown,
                     StructuredDataMessage(parts[7]) >>
             ELSE << Unknown, Unknown, message_without_pri >>
    ELSE LET rfc3164_match == Rfc3164Match(message_without_pri)
         IN  IF rfc3164_match.ok
             THEN LET app_match == AppMatch(rfc3164_match.text)
                  IN  IF app_match.ok
                      THEN << rfc3164_match.hostname, app_match.app_name,
                              app_match.text >>
                      ELSE << rfc3164_match.hostname, Unknown,
                              rfc3164_match.text >>
             ELSE << Unknown, Unknown, message_without_pri >>

-----------------------------------------------------------------------------
(* StateManager.state_lock: the scoped lock *)

\* mutant: the scope is entered without waiting for the lock
state_lock_enter_nowait(ctx) ==
    lock' = ctx

\* self._lock.acquire(): blocks until the lock is free
state_lock_enter(ctx) ==
    /\ lock = NoHolder
    /\ lock' = ctx

\* mutant: no finally, the lock is released on the normal exit only
state_lock_exit_nofinally(ctx, fault) ==
    lock' = IF fault THEN lock ELSE NoHolder

\* finally: self._lock.release(), on the normal exit of the scope and on an
\* exception raised inside it alike
state_lock_exit(ctx, fault) ==
    lock' = NoHolder

-----------------------------------------------------------------------------
(* The datagrams of a run *)

Sender == << "10.0.0.1", "514" >>

\* "<11>a": facility 1, severity 3 (Error)
DefaultDatagram == [ data |-> << "<", "1", "1", ">", "a" >>, addr |-> Sender ]

Datagrams ==
    { DefaultDatagram,
      \* "<14>c": facility 1, severity 6 (Informational)
      [ data |-> << "<", "1", "4", ">", "c" >>, addr |-> Sender ],
      \* an undecodable byte, then "d": no priority prefix
      [ data |-> << BadByte, "d" >>, addr |-> Sender ] }

\* what the socket may deliver next
NextDatagrams == IF received < MaxVaried THEN Datagrams ELSE { DefaultDatagram }

\* whether one more exception may be raised in this run
CanRaise == faults < MaxFaults /\ received <= MaxVaried

-----------------------------------------------------------------------------
(* start_syslog_listener *)

\* datetime.now().isoformat(): the datagrams are stamped in arrival order
Now == received

\* lines 170-196: decode, parse, classify, build the entry
BuildEntry(bytes, from, now) ==
    LET message  == Decode(bytes)
        pri      == parse_syslog_pri(message)
        facility == pri[1]
        severity == pri[2]
        body     == parse_syslog_message(pri[3])
        severity_name ==
            IF severity # None
            THEN (IF severity \in DOMAIN SEVERITY_NAMES
                  THEN SEVERITY_NAMES[severity] ELSE "Unknown")
            ELSE "Unknown"
    IN  [ timestamp     |-> now,
          source        |-> << from[1], ":", from[2] >>,
          hostname      |-> body[1],
          app_name      |-> body[2],
          facility      |-> facility,
          severity      |-> severity,
          severity_name |-> severity_name,
          message       |-> body[3] ]

\* mutant: every entry that has a severity is admitted
IsHighSeverityAny(severity) == severity # None

\* line 204: severity is not None and severity in HIGH_SEVERITY
IsHighSeverity(severity) == severity # None /\ severity \in HIGH_SEVERITY

\* lines 157-159
InitStats(st) ==
    LET st1 == IF ~DictHas(st, "stats") THEN DictSet(st, "stats", EmptyDict) ELSE st
    IN  DictSet(st1, "stats", DictSet(st1["stats"], "syslog_count", 0))

\* lines 161-162
InitAlerts(st) ==
    IF ~DictHas(st, "recent_alerts") THEN DictSet(st, "recent_alerts", << >>) ELSE st

\* line 201: state['stats']['syslog_count'] += 1
IncrementCount(st) ==
    DictSet(st, "stats",
            DictSet(st["stats"], "syslog_count", st["stats"]["syslog_count"] + 1))

\* line 205: state['recent_alerts'].append(log_entry)
AppendAlert(st, entry) ==
    DictSet(st, "recent_alerts", Append(st["recent_alerts"], entry))

\* mutant: the first 100 alerts are kept, [:100] for [-100:]
TruncateAlertsHead(st) ==
    IF Len(st["recent_alerts"]) > MaxAlerts
    THEN DictSet(st, "recent_alerts", SubSeq(st["recent_alerts"], 1, MaxAlerts))
    ELSE st

\* mutant: the test is off by one, the sequence is cut at 102 entries
TruncateAlertsLate(st) ==
    IF Len(st["recent_alerts"]) > MaxAlerts + 1
    THEN DictSet(st, "recent_alerts", LastN(st["recent_alerts"], MaxAlerts))
    ELSE st

\* lines 208-209: keep only the last 100 alerts
TruncateAlerts(st) ==
    IF Len(st["recent_alerts"]) > MaxAlerts
    THEN DictSet(st, "recent_alerts", LastN(st["recent_alerts"], MaxAlerts))
    ELSE st

\* the daemon threads run as long as the process does
Running == mpc \notin { "exited", "t_exited" }

\* line 146-149: the socket is created
L_Socket ==
    /\ Running /\ lpc = "socket"
    /\ lpc' = "bind"
    /\ UNCHANGED << state, lock, received, data, addr, log_entry, parsed, faults,
                    mainVars, workerVars, commits, highLog, dropped, raised, pre >>

\* line 152: sock.bind; an OSError leaves the outer try
L_Bind ==
    /\ Running /\ lpc = "bind"
    /\ \/ /\ lpc' = "init_acquire"
          /\ UNCHANGED raised
       \/ /\ lpc' = "fatal"
          /\ raised' = "bind"
    /\ UNCHANGED << state, lock, received, data, addr, log_entry, parsed, faults,
                    mainVars, workerVars, commits, highLog, dropped, pre >>

\* line 156
L_InitAcquire ==
    /\ Running /\ lpc = "init_acquire"
    /\ state_lock_enter(Listener)
    /\ lpc' = "init_stats"
    /\ UNCHANGED << state, received, data, addr, log_entry, parsed, faults,
                    mainVars, workerVars, commits, highLog, dropped, raised, pre >>

\* lines 157-159
L_InitStats ==
    /\ Running /\ lpc = "init_stats"
    /\ state' = InitStats(state)
    /\ lpc' = "init_alerts"
    /\ UNCHANGED << lock, received, data, addr, log_entry, parsed, faults,
                    mainVars, workerVars, commits, highLog, dropped, raised, pre >>

\* lines 161-162
L_InitAlerts ==
    /\ Running /\ lpc = "init_alerts"
    /\ state' = InitAlerts(state)
    /\ lpc' = "init_release"
    /\ UNCHANGED << lock, received, data, addr, log_entry, parsed, faults,
                    mainVars, workerVars, commits, highLog, dropped, raised, pre >>

\* the end of the with block of line 156
L_InitRelease ==
    /\ Running /\ lpc = "init_release"
    /\ state_lock_exit(Listener, FALSE)
    /\ lpc' = "recv"
    /\ UNCHANGED << state, received, data, addr, log_entry, parsed, faults,
                    mainVars, workerVars, commits, highLog, dropped, raised, pre >>

\* line 168: sock.recvfrom(1024) returns a datagram, or raises (a socket
\* error), which the handler of line 215 catches
L_Recv ==
    /\ Running /\ lpc = "recv"
    /\ \/ /\ received < MaxDatagrams
          /\ \E d \in NextDatagrams :
                /\ data' = d.data
                /\ addr' = d.addr
          /\ received' = received + 1
          /\ lpc' = "process"
          /\ UNCHANGED << faults, raised >>
       \/ /\ CanRaise
          /\ faults' = faults + 1
          /\ raised' = "recv"
          /\ lpc' = "handler"
          /\ UNCHANGED << received, data, addr >>
    /\ UNCHANGED << state, lock, log_entry, parsed, mainVars, workerVars,
                    commits, highLog, dropped, pre >>

\* lines 170-196: the entry is built, or a stage raises
L_Process ==
    /\ Running /\ lpc = "process"
    /\ \/ /\ decoded' = Decode(data)
          /\ header' = parse_syslog_pri(decoded')
          /\ fields' = parse_syslog_message(header'[3])
          /\ log_entry' = BuildEntry(data, addr, Now)
          /\ lpc' = "commit_acquire"
          /\ UNCHANGED << faults, dropped, raised >>
       \/ /\ CanRaise
          /\ faults' = faults + 1
          /\ dropped' = dropped + 1
          /\ raised' = "process"
          /\ lpc' = "handler"
          /\ UNCHANGED << parsed, log_entry >>
    /\ UNCHANGED << state, lock, received, data, addr, mainVars, workerVars,
                    commits, highLog, pre >>

\* line 199: the commit begins
L_CommitAcquire ==
    /\ Running /\ lpc = "commit_acquire"
    /\ state_lock_enter(Listener)
    /\ lpc' = "increment"
    /\ commits' = commits + 1
    /\ highLog' = IF log_entry.severity \in { 0, 1, 2, 3 }
                  THEN Append(highLog, log_entry) ELSE highLog
    /\ pre' = [ count  |-> state["stats"]["syslog_count"],
                alerts |-> state["recent_alerts"] ]
    /\ UNCHANGED << state, received, data, addr, log_entry, parsed, faults,
                    mainVars, workerVars, dropped, raised >>

\* line 201
L_Increment ==
    /\ Running /\ lpc = "increment"
    /\ state' = IncrementCount(state)
    /\ lpc' = "append"
    /\ UNCHANGED << lock, received, data, addr, log_entry, parsed, faults,
                    mainVars, workerVars, commits, highLog, dropped, raised, pre >>

\* lines 204-205
L_Append ==
    /\ Running /\ lpc = "append"
    /\ IF IsHighSeverity(log_entry.severity)
       THEN /\ state' = AppendAlert(state, log_entry)
            /\ lpc' = "truncate"
       ELSE /\ state' = state
            /\ lpc' = "print"
    /\ UNCHANGED << lock, received, data, addr, log_entry, parsed, faults,
                    mainVars, workerVars, commits, highLog, dropped, raised, pre >>

\* lines 208-209
L_Truncate ==
    /\ Running /\ lpc = "truncate"
    /\ state' = TruncateAlerts(state)
    /\ lpc' = "print"
    /\ UNCHANGED << lock, received, data, addr, log_entry, parsed, faults,
                    mainVars, workerVars, commits, highLog, dropped, raised, pre >>

\* lines 211 and 213: print, still inside the with block; when print raises,
\* the scope is left through the finally of state_lock
L_Print ==
    /\ Running /\ lpc = "print"
    /\ \/ /\ lpc' = "commit_release"
          /\ UNCHANGED << lock, faults, raised >>
       \/ /\ CanRaise
          /\ faults' = faults + 1
          /\ raised' = "print"
          /\ state_lock_exit(Listener, TRUE)
          /\ lpc' = "handler"
    /\ UNCHANGED << state, received, data, addr, log_entry, parsed,
                    mainVars, workerVars, commits, highLog, dropped, pre >>

\* the end of the with block of line 199
L_CommitRelease ==
    /\ Running /\ lpc = "commit_release"
    /\ state_lock_exit(Listener, FALSE)
    /\ lpc' = "recv"
    /\ UNCHANGED << state, received, data, addr, log_entry, parsed, faults,
                    mainVars, workerVars, commits, highLog, dropped, raised, pre >>

\* mutant: no inner handler, the exception reaches the handler of line 220
L_HandlerStops ==
    /\ Running /\ lpc = "handler"
    /\ lpc' = "fatal"
    /\ UNCHANGED << state, lock, received, data, addr, log_entry, parsed, faults,
                    mainVars, workerVars, commits, highLog, dropped, raised, pre >>

\* mutant: the loop is re-entered above the initialisation of line 156
L_HandlerReinit ==
    /\ Running /\ lpc = "handler"
    /\ lpc' = "init_acquire"
    /\ UNCHANGED << state, lock, received, data, addr, log_entry, parsed, faults,
                    mainVars, workerVars, commits, highLog, dropped, raised, pre >>

\* lines 215-218: except Exception: print, continue
L_Handler ==
    /\ Running /\ lpc = "handler"
    /\ lpc' = "recv"
    /\ UNCHANGED << state, lock, received, data, addr, log_entry, parsed, faults,
                    mainVars, workerVars, commits, highLog, dropped, raised, pre >>

\* lines 220-221: except Exception: print "Fatal error"
L_Fatal ==
    /\ Running /\ lpc = "fatal"
    /\ lpc' = "close"
    /\ UNCHANGED << state, lock, received, data, addr, log_entry, parsed, faults,
                    mainVars, workerVars, commits, highLog, dropped, raised, pre >>

\* lines 222-224: finally: sock.close(), print "Stopped"
L_Close ==
    /\ Running /\ lpc = "close"
    /\ lpc' = "stopped"
    /\ UNCHANGED << state, lock, received, data, addr, log_entry, parsed, faults,
                    mainVars, workerVars, commits, highLog, dropped, raised, pre >>

ListenerStep ==
    \/ L_Socket \/ L_Bind
    \/ L_InitAcquire \/ L_InitStats \/ L_InitAlerts \/ L_InitRelease
    \/ L_Recv \/ L_Process
    \/ L_CommitAcquire \/ L_Increment \/ L_Append \/ L_Truncate
    \/ L_Print \/ L_CommitRelease
    \/ L_Handler \/ L_Fatal \/ L_Close

-----------------------------------------------------------------------------
(* test_syslog.py: main, the periodic reporter *)

NoSeen == [ count |-> None, alerts |-> << >> ]

\* mutant: get without the defaults, None when the key is missing
ReportNoDefault(st) ==
    [ count  |-> IF DictHas(st, "stats") THEN st["stats"]["syslog_count"] ELSE None,
      alerts |-> DictGet(st, "recent_alerts", << >>) ]

\* lines 34-36: stats.get('syslog_count', 0) and the alert list, as printed
Report(st) ==
    [ count  |-> DictGet(DictGet(st, "stats", EmptyDict), "syslog_count", 0),
      alerts |-> DictGet(st, "recent_alerts", << >>) ]

\* lines 17-26: the state manager is created and the listener thread started
M_Start ==
    /\ mpc = "start"
    /\ lpc' = "socket"
    /\ mpc' = "sleep"
    /\ UNCHANGED << state, lock, received, data, addr, log_entry, parsed, faults, seen,
                    workerVars, commits, highLog, dropped, raised, pre >>

\* lines 32-33: after the sleep, enter the scope
M_Acquire ==
    /\ mpc = "sleep"
    /\ state_lock_enter(Main)
    /\ mpc' = "report"
    /\ UNCHANGED << state, listenerVars, faults, seen, workerVars >>

\* lines 34-36
M_Report ==
    /\ mpc = "report"
    /\ seen' = Report(state)
    /\ mpc' = "release"
    /\ UNCHANGED << state, lock, listenerVars, faults, workerVars >>

\* the end of the with block of line 33; the locals are dead until rebound
M_Release ==
    /\ mpc = "release"
    /\ state_lock_exit(Main, FALSE)
    /\ seen' = NoSeen
    /\ mpc' = "sleep"
    /\ UNCHANGED << state, listenerVars, faults, workerVars >>

\* line 37: KeyboardInterrupt, during the sleep or inside the with block
M_Interrupt ==
    /\ \/ /\ mpc = "sleep"
          /\ UNCHANGED lock
       \/ /\ mpc \in { "report", "release" }
          /\ state_lock_exit(Main, TRUE)
    /\ seen' = NoSeen
    /\ mpc' = "shutdown"
    /\ UNCHANGED << state, listenerVars, faults, workerVars >>

\* line 39
M_FinalAcquire ==
    /\ mpc = "shutdown"
    /\ state_lock_enter(Main)
    /\ mpc' = "final_report"
    /\ UNCHANGED << state, listenerVars, faults, seen, workerVars >>

\* lines 40-41
M_FinalReport ==
    /\ mpc = "final_report"
    /\ seen' = Report(state)
    /\ mpc' = "final_release"
    /\ UNCHANGED << state, lock, listenerVars, faults, workerVars >>

\* the end of the with block of line 39, and of the process
M_FinalRelease ==
    /\ mpc = "final_release"
    /\ state_lock_exit(Main, FALSE)
    /\ mpc' = "exited"
    /\ UNCHANGED << state, listenerVars, faults, seen, workerVars >>

MainStep ==
    \/ M_Start \/ M_Acquire \/ M_Report \/ M_Release
    \/ M_Interrupt \/ M_FinalAcquire \/ M_FinalReport \/ M_FinalRelease

-----------------------------------------------------------------------------
(* test_locking.py: main and the worker threads *)

\* f'last_update_{name}'
LastUpdateKey(w) ==
    CASE w = "Thread-1" -> "last_update_Thread-1"
      [] w = "Thread-2" -> "last_update_Thread-2"
      [] w = "Thread-3" -> "last_update_Thread-3"

\* line 50
T_InitAcquire ==
    /\ mpc = "t_start"
    /\ state_lock_enter(Main)
    /\ mpc' = "t_init"
    /\ UNCHANGED << state, listenerVars, faults, seen, workerVars >>

\* lines 51-52
T_Init ==
    /\ mpc = "t_init"
    /\ state' = DictSet(state, "counter", 0)
    /\ mpc' = "t_init_release"
    /\ UNCHANGED << lock, listenerVars, faults, seen, workerVars >>

\* the end of the with block of line 50
T_InitRelease ==
    /\ mpc = "t_init_release"
    /\ state_lock_exit(Main, FALSE)
    /\ mpc' = "t_spawn"
    /\ UNCHANGED << state, listenerVars, faults, seen, workerVars >>

\* lines 56-63: the threads are started one after the other
T_Spawn ==
    /\ mpc = "t_spawn"
    /\ \E i \in 1..NumThreads :
          /\ wpc[WorkerNames[i]] = "unstarted"
          /\ \A j \in 1..(i - 1) : wpc[WorkerNames[j]] # "unstarted"
          /\ wpc' = [ wpc EXCEPT ![WorkerNames[i]] = "loop" ]
          /\ mpc' = IF i = NumThreads THEN "t_join" ELSE "t_spawn"
    /\ UNCHANGED << state, lock, listenerVars, faults, seen, wi, wcur >>

\* lines 66-67: thread.join() on every thread
T_Join ==
    /\ mpc = "t_join"
    /\ \A w \in Workers : wpc[w] = "done"
    /\ mpc' = "t_final_acquire"
    /\ UNCHANGED << state, lock, listenerVars, faults, seen, workerVars >>

\* line 70
T_FinalAcquire ==
    /\ mpc = "t_final_acquire"
    /\ state_lock_enter(Main)
    /\ mpc' = "t_final_report"
    /\ UNCHANGED << state, listenerVars, faults, seen, workerVars >>

\* lines 71-78: the counter is read and compared with 15
T_FinalReport ==
    /\ mpc = "t_final_report"
    /\ seen' = [ count |-> state["counter"], alerts |-> << >> ]
    /\ mpc' = "t_final_release"
    /\ UNCHANGED << state, lock, listenerVars, faults, workerVars >>

\* the end of the with block of line 70, and of the process
T_FinalRelease ==
    /\ mpc = "t_final_release"
    /\ state_lock_exit(Main, FALSE)
    /\ mpc' = "t_exited"
    /\ UNCHANGED << state, listenerVars, faults, seen, workerVars >>

\* lines 28-29: the next iteration enters the scope
W_Acquire(w) ==
    /\ Running /\ wpc[w] = "loop" /\ wi[w] < Iterations
    /\ state_lock_enter(w)
    /\ wpc' = [ wpc EXCEPT ![w] = "read" ]
    /\ UNCHANGED << state, listenerVars, faults, mainVars, wi, wcur >>

\* line 31: current = state.get('counter', 0)
W_Read(w) ==
    /\ Running /\ wpc[w] = "read"
    /\ wcur' = [ wcur EXCEPT ![w] = DictGet(state, "counter", 0) ]
    /\ wpc' = [ wpc EXCEPT ![w] = "sleep" ]
    /\ UNCHANGED << state, lock, listenerVars, faults, mainVars, wi >>

\* line 34: time.sleep(0.01), inside the scope
W_Sleep(w) ==
    /\ Running /\ wpc[w] = "sleep"
    /\ wpc' = [ wpc EXCEPT ![w] = "write" ]
    /\ UNCHANGED << state, lock, listenerVars, faults, mainVars, wi, wcur >>

\* lines 37-40
W_Write(w) ==
    /\ Running /\ wpc[w] = "write"
    /\ state' = DictSet(DictSet(state, "counter", wcur[w] + 1),
                        LastUpdateKey(w), wi[w])
    /\ wpc' = [ wpc EXCEPT ![w] = "release" ]
    /\ UNCHANGED << lock, listenerVars, faults, mainVars, wi, wcur >>

\* mutant: the scope is left without releasing the lock
W_Release_keeps(w) ==
    /\ Running /\ wpc[w] = "release"
    /\ wi' = [ wi EXCEPT ![w] = wi[w] + 1 ]
    /\ wpc' = [ wpc EXCEPT ![w] = "loop" ]
    /\ UNCHANGED << state, lock, listenerVars, faults, mainVars, wcur >>

\* the end of the with block of line 29, and of the iteration
W_Release(w) ==
    /\ Running /\ wpc[w] = "release"
    /\ state_lock_exit(w, FALSE)
    /\ wi' = [ wi EXCEPT ![w] = wi[w] + 1 ]
    /\ wpc' = [ wpc EXCEPT ![w] = "loop" ]
    /\ UNCHANGED << state, listenerVars, faults, mainVars, wcur >>

\* line 28: range(iterations) is exhausted
W_Done(w) ==
    /\ Running /\ wpc[w] = "loop" /\ wi[w] = Iterations
    /\ wpc' = [ wpc EXCEPT ![w] = "done" ]
    /\ UNCHANGED << state, lock, listenerVars, faults, mainVars, wi, wcur >>

LockingStep ==
    \/ T_InitAcquire \/ T_Init \/ T_InitRelease \/ T_Spawn \/ T_Join
    \/ T_FinalAcquire \/ T_FinalReport \/ T_FinalRelease
    \/ \E w \in Workers :
          \/ W_Acquire(w) \/ W_Read(w) \/ W_Sleep(w)
          \/ W_Write(w) \/ W_Release(w) \/ W_Done(w)

-----------------------------------------------------------------------------
(* The two programs *)

\* StateManager.__init__, and every thread before it starts
InitCommon ==
    /\ state = EmptyDict
    /\ lock = NoHolder
    /\ lpc = "unstarted"
    /\ received = 0
    /\ data = << >>
    /\ addr = << >>
    /\ decoded = << >>
    /\ header = << None, None, << >> >>
    /\ fields = << Unknown, Unknown, << >> >>
    /\ log_entry = EmptyDict
    /\ faults = 0
    /\ seen = NoSeen
    /\ wpc = [ w \in Workers |-> "unstarted" ]
    /\ wi = [ w \in Workers |-> 0 ]
    /\ wcur = [ w \in Workers |-> 0 ]
    /\ commits = 0
    /\ highLog = << >>
    /\ dropped = 0
    /\ raised = "none"
    /\ pre = [ count |-> 0, alerts |-> << >> ]

\* python test_syslog.py
Init == InitCommon /\ mpc = "start"

Next == ListenerStep \/ MainStep

Spec == Init /\ [][Next]_vars

\* python test_locking.py
InitLocking == InitCommon /\ mpc = "t_start"

NextLocking == LockingStep

SpecLocking == InitLocking /\ [][NextLocking]_vars

\* the steps of main() of test_locking.py, and those of one worker thread
MainLockingStep ==
    \/ T_InitAcquire \/ T_Init \/ T_InitRelease \/ T_Spawn \/ T_Join
    \/ T_FinalAcquire \/ T_FinalReport \/ T_FinalRelease
WorkerStep(w) ==
    \/ W_Acquire(w) \/ W_Read(w) \/ W_Sleep(w)
    \/ W_Write(w) \/ W_Release(w) \/ W_Done(w)

\* the same program under a fair scheduler: a thread that can take a step
\* for ever takes one.  threading.Lock promises no order among the waiting
\* threads, so the fairness is weak: a thread waiting for the lock is only
\* sure to go on when the lock stays free.
FairSpecLocking ==
    /\ SpecLocking
    /\ WF_vars(MainLockingStep)
    /\ \A w \in Workers : WF_vars(WorkerStep(w))

-----------------------------------------------------------------------------
(* One datagram through the ingest loop, for any payload of a bounded set *)

\* length of the payloads over PriAlphabet
MaxLen == 5
\* largest PRI value of the payloads "<N>a"
MaxPri == 191
\* length of the free text m of the payloads "1 t H A p - - m"
MaxMsg == 3
\* length of the structured data field after its opening bracket
MaxSd == 4
\* length of the text after "1 " of the short version-1 payloads
MaxShort == 11
\* length of the text after the timestamp of the legacy payloads
MaxTail == 4

\* all texts of at most n characters of S
Texts(S, n) == UNION { [ 1..k -> S ] : k \in 0..n }

\* the decimal digits of n, as str(n) writes them
RECURSIVE DigitsOf(_)
DigitsOf(n) ==
    LET d == CHOOSE c \in Digits : DigitVal(c) = n % 10
    IN  IF n < 10 THEN << d >> ELSE DigitsOf(n \div 10) \o << d >>

PriAlphabet == { "<", "1", ">", "a", "\n" }
PriTexts == Texts(PriAlphabet, MaxLen)

\* "<N>a" for every PRI value up to MaxPri
NumberedTexts == { << "<" >> \o DigitsOf(n) \o << ">", "a" >> : n \in 0..MaxPri }

\* "1 t H A p - - m": RFC 5424 with nil structured data
Tokens == { << "-" >>, << "h" >>, << "h", "1" >> }
NilSdText(H, A, m) ==
    << "1", " ", "t", " " >> \o H \o << " " >> \o A
        \o << " ", "p", " ", "-", " ", "-", " " >> \o m
NilSdTexts ==
    { NilSdText(H, A, m) :
        H \in Tokens, A \in Tokens, m \in Texts({ "x", " ", "-", "[", "\n" }, MaxMsg) }

\* "1 t h a p m [...": RFC 5424 with a structured data field
SdPrefix == << "1", " ", "t", " ", "h", " ", "a", " ", "p", " ", "m", " " >>
SdTexts == { SdPrefix \o << "[" >> \o r : r \in Texts({ "[", "]", "x", " " }, MaxSd) }

\* "1 " and up to MaxShort characters: version 1 with few fields
ShortTexts == { << "1", " " >> \o w : w \in Texts({ "a", " " }, MaxShort) }

\* "Jan 5 10:00:00", the same in lower case, and the same without seconds
Stamps ==
    { << "J", "a", "n", " ", "5", " ", "1", "0", ":", "0", "0", ":", "0", "0" >>,
      << "j", "a", "n", " ", "5", " ", "1", "0", ":", "0", "0", ":", "0", "0" >>,
      << "J", "a", "n", " ", "5", " ", "1", "0", ":", "0", "0" >> }
LegacyTexts == { s \o w : s \in Stamps, w \in Texts({ " ", "h", ":", "x" }, MaxTail) }

\* the payloads recvfrom may return
Inputs ==
    PriTexts \cup NumberedTexts \cup NilSdTexts \cup SdTexts
        \cup ShortTexts \cup LegacyTexts

\* the entry of DefaultDatagram, the first datagram of the run
FirstEntry == BuildEntry(DefaultDatagram.data, DefaultDatagram.addr, 1)

\* the listener has committed DefaultDatagram and recvfrom has returned a
\* second datagram, with any payload of Inputs
InitParse ==
    /\ state = AppendAlert(IncrementCount(InitAlerts(InitStats(EmptyDict))),
                           FirstEntry)
    /\ lock = NoHolder
    /\ lpc = "process"
    /\ received = 2
    /\ data \in Inputs
    /\ addr = Sender
    /\ decoded = Decode(DefaultDatagram.data)
    /\ header = parse_syslog_pri(decoded)
    /\ fields = parse_syslog_message(header[3])
    /\ log_entry = FirstEntry
    /\ faults = 0
    /\ mpc = "sleep"
    /\ seen = NoSeen
    /\ wpc = [ w \in Workers |-> "unstarted" ]
    /\ wi = [ w \in Workers |-> 0 ]
    /\ wcur = [ w \in Workers |-> 0 ]
    /\ commits = 1
    /\ highLog = << FirstEntry >>
    /\ dropped = 0
    /\ raised = "none"
    /\ pre = [ count |-> 0, alerts |-> << >> ]

\* lines 170-218 for that datagram
NextParse ==
    \/ L_Process \/ L_CommitAcquire \/ L_Increment \/ L_Append \/ L_Truncate
    \/ L_Print \/ L_CommitRelease \/ L_Handler

SpecParse == InitParse /\ [][NextParse]_vars

-----------------------------------------------------------------------------
(* What the claims speak of *)

\* the counter and the alert sequence as a reader obtains them
Counter == DictGet(DictGet(state, "stats", EmptyDict), "syslog_count", 0)
Alerts  == DictGet(state, "recent_alerts", << >>)

\* the last min(h, 100) of the h high-severity entries committed so far
ExpectedAlerts ==
    LET h == Len(highLog)
        m == IF h < MaxAlerts THEN h ELSE MaxAlerts
    IN  SubSeq(highLog, h - m + 1, h)

\* the ingest loop is between the acquire and the release of a commit
InCommit == lpc \in { "increment", "append", "truncate", "print", "commit_release" }

\* the context is inside a state_lock scope
InScope(ctx) ==
    IF ctx = Listener
    THEN InCommit \/ lpc \in { "init_stats", "init_alerts", "init_release" }
    ELSE IF ctx = Main
    THEN mpc \in { "report", "release", "final_report", "final_release",
                   "t_init", "t_init_release", "t_final_report", "t_final_release" }
    ELSE wpc[ctx] \in { "read", "sleep", "write", "release" }

Contexts == { Listener, Main } \cup Workers

\* C1: after any sequence of commits, h of them high-severity, the alert
\* sequence is the last min(h, 100) high-severity entries in arrival order
C1_AlertsAreLastHundred ==
    lock # Listener => Alerts = ExpectedAlerts

\* more than 100 high-severity entries were committed: the oldest are evicted
C1_Witness ==
    /\ lock # Listener
    /\ Len(highLog) > MaxAlerts
    /\ Len(Alerts) = MaxAlerts
    /\ Alerts[1] # highLog[1]

\* C2: in every state in which the lock is not held by a committing ingest
\* loop, the alert sequence holds at most 100 entries
C2_AlertsBounded ==
    lock # Listener => Len(Alerts) <= MaxAlerts

\* the commit of the 101st high-severity entry is over
C2_Witness ==
    /\ lock = NoHolder
    /\ lpc = "recv"
    /\ Len(highLog) = MaxAlerts + 1
    /\ Len(Alerts) = MaxAlerts

\* C3: whenever a reader holds the lock, the counter and the alert sequence
\* are the result of a whole number of completed commits, and so is what
\* the reader has read
C3_CommitsAtomicForReaders ==
    lock = Main =>
        /\ ~InCommit
        /\ Counter = commits
        /\ Alerts = ExpectedAlerts
        /\ mpc \in { "release", "final_release" } =>
              seen = [ count |-> commits, alerts |-> ExpectedAlerts ]

\* the reporter is inside its scope while the ingest loop waits to commit
C3_Witness ==
    /\ lock = Main
    /\ mpc = "release"
    /\ lpc = "commit_acquire"
    /\ commits >= 1
    /\ Len(Alerts) >= 1

\* the increments of the shared counter performed so far by the workers
RECURSIVE Performed(_)
Performed(n) == IF n = 0 THEN 0 ELSE wi[WorkerNames[n]] + Performed(n - 1)

C5_ExclusiveAndReleased ==
    \A ctx \in Contexts : InScope(ctx) <=> lock = ctx

\* the reporter enters its scope after print raised inside the commit scope
C5_Witness ==
    /\ raised = "print"
    /\ lpc = "handler"
    /\ lock = Main

\* C6: an exception raised while a datagram is processed never stops the
\* listener (only a failed bind does), and every datagram whose processing
\* did not raise before the commit is counted
C6_FaultNeverStopsListener ==
    /\ lpc \in { "fatal", "close", "stopped" } => raised = "bind"
    /\ lpc = "recv" => Counter = received - dropped

\* a datagram was dropped by an exception and all later ones are counted
C6_Witness ==
    /\ lpc = "recv"
    /\ raised = "process"
    /\ dropped = 1
    /\ received = MaxDatagrams
    /\ Counter = MaxDatagrams - 1

\* C7: after a failed bind or an error raised by the receive call the
\* ingest loop does not receive again
C7_SocketErrorStopsListener ==
    raised \in { "bind", "recv" } => lpc # "recv"

\* C8: every commit adds exactly 1 to the counter whatever the severity; the
\* entry is appended iff its severity is in {0,1,2,3}, and otherwise the
\* alert sequence is as it was when the commit began
C8_SeverityGatesAlertsOnly ==
    /\ lock # Listener => Counter = commits
    /\ lpc \in { "print", "commit_release" } =>
          /\ Counter = pre.count + 1
          /\ IF log_entry.severity \in { 0, 1, 2, 3 }
             THEN LET all == Append(pre.alerts, log_entry)
                      cut == IF Len(all) > MaxAlerts THEN Len(all) - MaxAlerts ELSE 0
                  IN  Alerts = SubSeq(all, cut + 1, Len(all))
             ELSE Alerts = pre.alerts

\* a datagram without a priority is committed after a high-severity one
C8_Witness ==
    /\ lpc = "commit_release"
    /\ log_entry.severity = None
    /\ Len(pre.alerts) >= 1
    /\ Counter = 2

\* C9: no step makes the counter smaller
C9_CounterMonotonic ==
    [][Counter' >= Counter]_vars

\* the listener has initialised the state and committed, the reporter reads
C9_Witness ==
    /\ lpc = "recv"
    /\ mpc = "release"
    /\ Counter >= 2
    /\ seen.count = Counter

\* C10: a reader that reads before the first commit, before or after the
\* listener's own initialisation, obtains counter 0 and no alerts
C10_InitialStateReadable ==
    (commits = 0 /\ mpc \in { "release", "final_release" }) =>
        seen = [ count |-> 0, alerts |-> << >> ]

\* the reporter has read a state the listener has not initialised yet
C10_Witness ==
    /\ mpc = "release"
    /\ ~DictHas(state, "stats")
    /\ ~DictHas(state, "recent_alerts")
    /\ seen = [ count |-> 0, alerts |-> << >> ]

-----------------------------------------------------------------------------
(* The parsers, on the datagram of SpecParse *)

\* lines 172-181 have run for the datagram in `data`
Parsed == lpc = "commit_acquire"

\* "<N>", N written in decimal
PriPrefix(n) == << "<" >> \o DigitsOf(n) \o << ">" >>

\* s[from:]
From(s, from) == SubSeq(s, from, Len(s))

\* the text begins with "<", one or more digits, ">"
BeginsWithPri(s) ==
    \E k \in 1..Len(s) :
        /\ Len(s) >= k + 2
        /\ s[1] = "<"
        /\ \A i \in 2..(k + 1) : s[i] \in Digits
        /\ s[k + 2] = ">"

\* C11: for every N >= 0 and every text rest, parse_syslog_pri("<N>" + rest)
\* returns facility N div 8, severity N mod 8 and the remainder rest exactly,
\* whatever characters rest holds.  The code matches the remainder with (.*)$
\* and no DOTALL flag: a final newline of rest is dropped, and a newline
\* inside rest makes the match fail, so that no priority is returned at all.
C11_PriSplitsExactly ==
    Parsed =>
        \A n \in 0..MaxPri :
            StartsWith(decoded, PriPrefix(n)) =>
                header = << n \div 8, n % 8,
                            From(decoded, Len(PriPrefix(n)) + 1) >>

\* C12: a message that does not begin with "<", digits, ">" comes back as
\* (None, None, message), the message unchanged.
C12_NoPriPassesThrough ==
    (Parsed /\ ~BeginsWithPri(decoded)) => header = << None, None, decoded >>

\* "<a>" has been parsed: brackets without digits
C12_Witness ==
    /\ Parsed
    /\ decoded = << "<", "a", ">" >>
    /\ header = << None, None, << "<", "a", ">" >> >>

\* the names of the severities 0..7, in order
NamesInOrder ==
    << "Emergency", "Alert", "Critical", "Error",
       "Warning", "Notice", "Informational", "Debug" >>

\* the commit of the datagram has passed the append of line 205
PastAppend == lpc \in { "truncate", "print", "commit_release" }

\* C13: every entry the loop builds has a severity name: the fixed name of its
\* severity for 0..7, and "Unknown" exactly when the severity is absent; the
\* entry is admitted to the alerts for severity 0..3, and neither for 4..7
\* nor when the severity is absent.
C13_ClassificationFixed ==
    LET s == log_entry.severity
        admitted == Alerts[Len(Alerts)] = log_entry
    IN  /\ s = None \/ s \in 0..7
        /\ s \in 0..7 => log_entry.severity_name = NamesInOrder[s + 1]
        /\ s = None <=> log_entry.severity_name = "Unknown"
        /\ PastAppend => (admitted <=> s \in 0..3)

\* "<34>a", severity 2, has been committed as Critical and admitted
C13_Witness ==
    /\ lpc = "commit_release"
    /\ decoded = << "<", "3", "4", ">", "a" >>
    /\ log_entry.severity = 2
    /\ log_entry.severity_name = "Critical"
    /\ Alerts = << FirstEntry, log_entry >>

\* a field as parse_syslog_message reports it: "-" reads "unknown"
Reported(token) == IF token = << "-" >> THEN Unknown ELSE token

\* C14: for tokens H and A without whitespace and every text m,
\* parse_syslog_message("1 t H A p - - " + m) returns the hostname H, the
\* app_name A and the message m, a token "-" being reported as "unknown".
C14_NilStructuredData ==
    Parsed =>
        \A H \in Tokens, A \in Tokens :
            LET prefix == NilSdText(H, A, << >>)
            IN  StartsWith(header[3], prefix) =>
                    fields = << Reported(H), Reported(A),
                                From(header[3], Len(prefix) + 1) >>

\* "1 t - h1 p - -  x\n" has been parsed: m begins with a blank and ends
\* with a newline
C14_Witness ==
    /\ Parsed
    /\ decoded = NilSdText(<< "-" >>, << "h", "1" >>, << " ", "x", "\n" >>)
    /\ fields = << Unknown, << "h", "1" >>, << " ", "x", "\n" >> >>

\* opening minus closing brackets among the first i characters of r
Depth(r, i) ==
    Cardinality({ k \in 1..i : r[k] = "[" }) - Cardinality({ k \in 1..i : r[k] = "]" })

\* what the claim says of a remainder field r that starts with "[": the text
\* after the first position where the depth is back to 0, stripped on the
\* left, and the empty text when there is no such position
AfterStructuredData(r) ==
    LET closes == { i \in 1..Len(r) : Depth(r, i) = 0 }
    IN  IF closes = {} THEN << >>
        ELSE LET close == CHOOSE i \in closes : \A j \in closes : i <= j
             IN  LStrip(From(r, close + 1))

\* C15: when the remainder field of an RFC 5424 message starts with "[", the
\* message is what follows the bracket at which the depth first returns to 0
\* (nested pairs are passed over), without its leading whitespace, and it is
\* empty when no bracket closes the first one.
C15_StructuredDataBoundary ==
    (Parsed /\ StartsWith(header[3], SdPrefix \o << "[" >>)) =>
        fields[3] = AfterStructuredData(From(header[3], Len(SdPrefix) + 1))

\* "1 t h a p m [[]]x" has been parsed: a nested pair, then the message "x"
C15_Witness ==
    /\ Parsed
    /\ decoded = SdPrefix \o << "[", "[", "]", "]", "x" >>
    /\ fields[3] = << "x" >>

\* the text begins with a timestamp of the legacy format: a capital and two
\* small letters, whitespace, one or two digits, whitespace, hh:mm:ss
BeginsWithStamp(s) ==
    LET dayAt  == SkipSpace(s, 4)
        nDay   == DigitRun(s, dayAt)
        timeAt == SkipSpace(s, dayAt + nDay)
    IN  /\ Len(s) >= 3
        /\ s[1] \in UpperCase /\ s[2] \in LowerCase /\ s[3] \in LowerCase
        /\ dayAt > 4
        /\ nDay \in { 1, 2 }
        /\ timeAt > dayAt + nDay
        /\ ClockEnd(s, timeAt) > 0

\* the number of whitespace-delimited fields of the text
FieldCount(s) ==
    Cardinality({ i \in 1..Len(s) :
                    /\ s[i] \notin Whitespace
                    /\ i = 1 \/ s[i - 1] \in Whitespace })

\* parse_syslog_pri, then parse_syslog_message, found nothing in the payload
YieldsUnknown ==
    /\ header = << None, None, decoded >>
    /\ fields = << Unknown, Unknown, decoded >>

\* C16 as stated: every text without a priority prefix and without a legacy
\* timestamp at its start comes out as hostname "unknown", app_name
\* "unknown" and the whole text as message.
C16_NoPriNoStampIsUnknown ==
    (Parsed /\ ~BeginsWithPri(decoded) /\ ~BeginsWithStamp(decoded))
        => YieldsUnknown

\* C16, amended: every text without a priority prefix and without a legacy
\* timestamp at its start, which is not a version-1 message either (it does
\* not both begin with "1 " and have 7 fields or more), comes out as hostname
\* "unknown", app_name "unknown" and the whole text as message.
C16_UnrecognizedIsUnknown ==
    ( /\ Parsed
      /\ ~BeginsWithPri(decoded)
      /\ ~BeginsWithStamp(decoded)
      /\ ~(StartsWith(decoded, << "1", " " >>) /\ FieldCount(decoded) >= 7) )
        => YieldsUnknown

\* "jan 5 10:00:00 h x" has been parsed: the month in lower case is no
\* timestamp
C16_Witness ==
    /\ Parsed
    /\ decoded = << "j", "a", "n", " ", "5", " ", "1", "0", ":", "0", "0", ":",
                    "0", "0", " ", "h", " ", "x" >>
    /\ YieldsUnknown

\* C18: a message without its priority that starts with "1 " and has fewer
\* than 7 whitespace-delimited fields comes back as hostname "unknown",
\* app_name "unknown" and the message itself: the legacy pattern is not tried
\* on it and nothing is raised.
C18_ShortVersionOneIsUnknown ==
    ( /\ Parsed
      /\ StartsWith(header[3], << "1", " " >>)
      /\ FieldCount(header[3]) < 7 )
        => fields = << Unknown, Unknown, header[3] >>

\* "1 a a a a a " has been parsed: six fields and a trailing blank
C18_Witness ==
    /\ Parsed
    /\ header[3] = << "1", " ", "a", " ", "a", " ", "a", " ", "a", " ", "a", " " >>
    /\ FieldCount(header[3]) = 6
    /\ fields = << Unknown, Unknown, header[3] >>

-----------------------------------------------------------------------------
(* The ingest loop and the lock *)

\* the listener's next step performs I/O: the socket calls of lines 149, 152,
\* 168 and 223, and the prints of lines 153, 211, 213, 217, 221 and 224
AtIo == lpc \in { "socket", "bind", "recv", "print", "handler", "fatal", "close" }

\* C17: the ingest loop performs no I/O while it holds the state lock: the
\* entry is built before the lock is acquired, the lock is not held at the
\* socket receive, and nothing between the acquire and the release is I/O.
\* The code prints the log line at lines 211/213, inside the with block of
\* line 199.
C17_NoIoUnderLock ==
    lock = Listener => (~AtIo /\ lpc # "process")

\* `new` is what is left of `old` after entries were dropped at its head
Kept(old, new) == \E k \in 1..(Len(old) + 1) : new = From(old, k)

\* C19: every entry of the alert sequence has a severity in 0..3, a facility
\* that is not negative and one of the names Emergency, Alert, Critical,
\* Error; and a step leaves the stored entries as they are: it may only
\* append the entry being committed and drop entries at the head.
C19_AlertsHighAndImmutable ==
    /\ [](\A i \in 1..Len(Alerts) :
            /\ Alerts[i].severity \in { 0, 1, 2, 3 }
            /\ Alerts[i].facility >= 0
            /\ Alerts[i].severity_name \in { "Emergency", "Alert", "Critical", "Error" })
    /\ [][ \/ Kept(Alerts, Alerts')
           \/ Kept(Append(Alerts, log_entry), Alerts') ]_vars

\* "<184>a", facility 23 and severity 0, has been committed after the first
\* entry, which is as it was
C19_Witness ==
    /\ lpc = "commit_release"
    /\ Len(Alerts) = 2
    /\ Alerts[1] = FirstEntry
    /\ Alerts[2].facility = 23
    /\ Alerts[2].severity = 0
    /\ Alerts[2].severity_name = "Emergency"

\* the context is at the acquire of a state_lock scope of test_locking.py
Requests(ctx) ==
    IF ctx = Main THEN mpc \in { "t_start", "t_final_acquire" }
    ELSE wpc[ctx] = "loop" /\ wi[ctx] < Iterations

\* C20: under a fair scheduler no context of test_locking.py waits for the
\* lock for ever: every context that requests the lock gets it, every worker
\* completes its iterations, and the final read of the counter takes place.
C20_NoStarvation ==
    /\ \A ctx \in Workers \cup { Main } : Requests(ctx) ~> (lock = ctx)
    /\ <>(\A w \in Workers : wpc[w] = "done" /\ wi[w] = Iterations)
    /\ <>(mpc = "t_exited" /\ seen.count = NumThreads * Iterations)

\* the last worker is in its last scope while the two others have completed
\* and main waits in join
C20_Witness ==
    /\ mpc = "t_join"
    /\ \E w \in Workers :
          /\ lock = w /\ wi[w] = Iterations - 1
          /\ \A v \in Workers \ { w } : wpc[v] = "done"

====
